---- MODULE Spec2Model ----
(***************************************************************************)
(* Generalized SpMM / SDDMM kernels of src/kernel/cpu/spmm.h.              *)
(*                                                                         *)
(* Tensors are flat, 0-based arrays (functions 0..len-1 -> Int), addressed *)
(* exactly as the kernels address them (base + id * dim + k).  A pointer   *)
(* the kernel sets to nullptr is the empty array NullArray: reading it is  *)
(* an evaluation error, so an unused operand is provably never read.       *)
(***************************************************************************)
EXTENDS Integers, Sequences, FiniteSets, TLC

\* ----------------------------------------------------------------- bounds
\* rows (= columns: the matrices are square so that both formats share the
\* node set) of the sparse matrix
MaxRows == 2
\* largest number of nonzeros
MaxNnz == 2
\* feature width of the SpMM tensors (product of out->shape[1..])
MaxDim == 2
\* largest extent of the trailing dimension SDDMM reduces over
MaxReduce == 2
\* UnravelRavel: number of dimensions and largest extent of one
MaxNdim == 2
MaxExtent == 2
\* number of calls of SDDMMBcastCoo / SDDMMBcastCsr a caller makes
MaxCalls == 2
\* largest gridDim.x / gridDim.y and blockDim.x / blockDim.y of a launch
MaxGrid == 2
MaxBlock == 2
\* SDDMMCsr: most threads along y
CsrThreadsY == 128

\* std::numeric_limits<DType>::max(); lowest() is its negation
DTypeMax == 1000
DTypeLowest == 0 - DTypeMax

NullArray == <<>>
Range0(n) == 0 .. (n - 1)

\* ------------------------------------------------------------ state
VARIABLES
  \* --- SpMM: the sparse matrix, in both formats
  indptr, indices, has_idx, edges,   \* csr.indptr, csr.indices, csr.data
  row, col,                          \* coo.row, coo.col (coo.data = edges)
  layout,                            \* how row/col list the CSR's entries
  op, reduce,                        \* operator name, "sum" | "max" | "min"
  X, W,                              \* ufeat->data, efeat->data
  O, argX, argW,                     \* out / argu / arge of the CSR and of the COO call
  pc,                                \* which kernel is running
  rows_done,                         \* CSR rows whose iteration has run
  wk,                                \* COO: next feature index of each nonzero's iteration
  \* --- SDDMM kernel parameters and effects
  reduce_size, ufeat_len, vfeat_len, out_len,
  ubcast_off, vbcast_off,
  src,                               \* the src each kernel obtained for each edge position
  out,                               \* the out tensor of the CSR and of the COO kernel
  ty_done,                           \* edge positions whose outer-loop iteration has run
  \* --- Index Resolver
  ur,                                \* the arguments of a call of UnravelRavel
  lhs_out, rhs_out,                  \* *lhs_out, *rhs_out
  \* --- broadcast-offset workspace of SDDMMBcastCoo / SDDMMBcastCsr
  workspace,                         \* the device's workspace buffers, in allocation order
  host,                              \* the locals of the running host function
  calls,                             \* number of calls made
  \* --- operator dispatch and the unimplemented kernels
  body_ran,                          \* the Op the body of SWITCH_OP ran with
  log_fatal,                         \* what was streamed to LOG(FATAL)
  \* --- a launch of an SDDMM kernel, thread by thread
  launch,                            \* the kernel and its <<<nblks, nthrs>>>
  thread,                            \* the (ty, tx) each thread's loops stand at
  wrote                              \* per cell of out, the writes outoff[tx] = val made to it

\* the inputs no kernel writes
inputVars == <<indptr, indices, has_idx, edges, row, col, layout, op, reduce>>
spmmVars == <<X, W, O, argX, argW, rows_done, wk>>

sddmmVars == <<reduce_size, ufeat_len, vfeat_len, out_len, ubcast_off, vbcast_off,
               src, out, ty_done>>

urVars == <<ur, lhs_out, rhs_out>>
wsVars == <<workspace, host, calls>>
dispatchVars == <<body_ran, log_fatal>>
gridVars == <<launch, thread, wrote>>

\* what the SpMM kernels do not touch
notSpMM == <<sddmmVars, urVars, wsVars, dispatchVars, gridVars>>
\* what the SDDMM kernels do not touch
notSDDMM == <<spmmVars, urVars, wsVars, dispatchVars, gridVars>>
\* what UnravelRavel does not touch
notUnravel == <<inputVars, spmmVars, sddmmVars, wsVars, dispatchVars, gridVars>>
\* what the workspace bracket does not touch
notWorkspace == <<inputVars, spmmVars, sddmmVars, urVars, dispatchVars, gridVars>>
\* what the dispatch and the unimplemented kernels do not touch
notDispatch == <<inputVars, sddmmVars, urVars, wsVars, gridVars>>
\* what the threads of an SDDMM launch do not touch
notGrid == <<spmmVars, urVars, wsVars, dispatchVars>>

vars == <<inputVars, pc, spmmVars, sddmmVars, urVars, wsVars, dispatchVars, gridVars>>

\* ------------------------------------------------------------ operators
OpNames == {"add", "mul", "copy_u", "copy_e"}

use_lhs(o) == o \in {"add", "mul", "copy_u"}
use_rhs(o) == o \in {"add", "mul", "copy_e"}

\* Op::Call(lhs_off, rhs_off): lhs_off = X + l, rhs_off = W + r
OpCall(o, l, r) ==
  CASE o = "add" -> X[l] + W[r]
    [] o = "mul" -> X[l] * W[r]
    [] o = "copy_u" -> X[l]
    [] o = "copy_e" -> W[r]

CmpZero(c) == IF c = "max" THEN DTypeLowest ELSE DTypeMax

\* mutants of CmpCall: Max and Min exchanged; equal values replace too
CmpCallSwapped(c, accum, val) == IF c = "max" THEN accum > val ELSE accum < val
CmpCallOrEqual(c, accum, val) == IF c = "max" THEN accum <= val ELSE accum >= val

\* true if accum should be replaced
CmpCall(c, accum, val) == IF c = "max" THEN accum < val ELSE accum > val

\* ------------------------------------------------------------ inputs
num_rows == MaxRows
dim == MaxDim
nnz == indptr[num_rows]

IndptrSet(N, E) ==
  { f \in [0 .. N -> 0 .. E] :
      /\ f[0] = 0
      /\ f[N] = E
      /\ \A r \in Range0(N) : f[r] <= f[r + 1] }

\* the id permutation tried for csr.data / coo.data: a rotation
EdgePerms(n) == { [j \in Range0(n) |-> (j + 1) % n] }

\* the row whose [indptr[r], indptr[r+1]) holds position j
RowOf(ip, j) == CHOOSE r \in Range0(num_rows) : ip[r] <= j /\ j < ip[r + 1]

\* feature tensors of n elements: all different, all tied, mixed signs, and
\* the extremes of DType (the compare operators' identities)
Distinct(n) == [i \in Range0(n) |-> i + 1]
Tied(n) == [i \in Range0(n) |-> 1]
Signed(n) == [i \in Range0(n) |-> IF i % 2 = 0 THEN 0 - (i + 2) ELSE i]
Extremes(n) == [i \in Range0(n) |-> IF i % 2 = 0 THEN DTypeLowest ELSE DTypeMax]

\* the <<ufeat, efeat>> pairs tried, for nx node and ne edge feature elements
FeatPairs(nx, ne) ==
  [ generic |-> <<Distinct(nx), Signed(ne)>>,
    tied |-> <<Tied(nx), Tied(ne)>>,
    extreme_u |-> <<Extremes(nx), Tied(ne)>>,
    extreme_e |-> <<Tied(nx), Extremes(ne)>> ]

FeatKinds == {"generic", "tied", "extreme_u", "extreme_e"}

\* the value Op::Call would return for left element x and right element w
OpVal(o, x, w) ==
  CASE o = "add" -> x + w
    [] o = "mul" -> x * w
    [] o = "copy_u" -> x
    [] o = "copy_e" -> w

Abs(v) == IF v < 0 THEN 0 - v ELSE v

\* no candidate, and no sum of candidates, leaves DType's range
NoOverflow(o, rd, xs, ws) ==
  LET xv == IF use_lhs(o) THEN {xs[i] : i \in DOMAIN xs} ELSE {0}
      wv == IF use_rhs(o) THEN {ws[i] : i \in DOMAIN ws} ELSE {0}
      scale == IF rd = "sum" THEN MaxNnz + 1 ELSE 1
  IN \A x \in xv, w \in wv : Abs(OpVal(o, x, w)) * scale <= DTypeMax

Formats == {"csr", "coo"}
Garbage(n) == [i \in Range0(n) |-> 77]
Stale(n) == [i \in Range0(n) |-> 0 - 1]

\* a square sparse matrix as CSR, and its entries (or their transposes) as COO
GraphInit(layouts) ==
  /\ \E E \in 0 .. MaxNnz :
       /\ indptr \in IndptrSet(num_rows, E)
       /\ indices \in [Range0(E) -> Range0(num_rows)]
  /\ has_idx \in BOOLEAN
  /\ edges \in (IF has_idx THEN EdgePerms(nnz) ELSE {NullArray})
  /\ layout \in layouts
  /\ row = [j \in Range0(nnz) |->
              IF layout = "same" THEN RowOf(indptr, j) ELSE indices[j]]
  /\ col = [j \in Range0(nnz) |->
              IF layout = "same" THEN indices[j] ELSE RowOf(indptr, j)]

SpMMIdle ==
  /\ X = NullArray /\ W = NullArray
  /\ O = NullArray /\ argX = NullArray /\ argW = NullArray
  /\ rows_done = {} /\ wk = NullArray

SDDMMIdle ==
  /\ reduce_size = 0 /\ ufeat_len = 0 /\ vfeat_len = 0 /\ out_len = 0
  /\ ubcast_off = NullArray /\ vbcast_off = NullArray
  /\ src = NullArray /\ out = NullArray /\ ty_done = NullArray

UnravelIdle == ur = NullArray /\ lhs_out = 0 /\ rhs_out = 0

WorkspaceIdle == workspace = NullArray /\ host = NullArray /\ calls = 0

DispatchIdle == body_ran = "none" /\ log_fatal = NullArray

GridIdle == launch = NullArray /\ thread = NullArray /\ wrote = NullArray

\* no sparse matrix and no operator: the state of the parts that take neither
InputIdle ==
  /\ indptr = NullArray /\ indices = NullArray /\ has_idx = FALSE
  /\ edges = NullArray /\ row = NullArray /\ col = NullArray
  /\ layout = "none" /\ op = "none" /\ reduce = "none"

\* a call of the CSR kernel, then of the COO kernel, of one reduction in
\* `reduces`, on a matrix listed in one of `layouts`, with features of `kinds`
SpMMInit(reduces, layouts, kinds) ==
  /\ GraphInit(layouts)
  /\ op \in OpNames
  /\ reduce \in reduces
  /\ \E kind \in kinds :
       LET f == FeatPairs(num_rows * dim, nnz * dim)[kind]
       IN /\ X = (IF use_lhs(op) THEN f[1] ELSE NullArray)
          /\ W = (IF use_rhs(op) THEN f[2] ELSE NullArray)
  /\ NoOverflow(op, reduce, X, W)
  /\ O = [f \in Formats |-> Garbage(num_rows * dim)]
  /\ argX = [f \in Formats |-> Stale(num_rows * dim)]
  /\ argW = [f \in Formats |-> Stale(num_rows * dim)]
  /\ pc = "csr"
  /\ rows_done = {}
  /\ wk = [i \in Range0(nnz) |-> 0]
  /\ SDDMMIdle
  /\ UnravelIdle /\ WorkspaceIdle /\ DispatchIdle /\ GridIdle

\* ------------------------------------------------------------ CSR kernels
\* mutant of Eid: the data array is ignored
EidByPosition(j) == j

\* eid of nonzero position j
Eid(j) == IF has_idx THEN edges[j] ELSE j

\* mutant of SumAccum: the j-loop starts one position late
RECURSIVE SumAccumSkipFirst(_, _, _)
SumAccumSkipFirst(k, row_start, j) ==
  IF j <= row_start + 1 THEN 0
  ELSE SumAccumSkipFirst(k, row_start, j - 1)
         + OpCall(op, indices[j - 1] * dim + k, (IF has_idx THEN edges[j - 1] ELSE j - 1) * dim + k)

\* accum after the j-loop of SpMMSumCsr has run over [row_start, j)
RECURSIVE SumAccum(_, _, _)
SumAccum(k, row_start, j) ==
  IF j <= row_start THEN 0
  ELSE SumAccum(k, row_start, j - 1)
         + OpCall(op, indices[j - 1] * dim + k, Eid(j - 1) * dim + k)

\* one iteration (row rid) of the parallel loop of SpMMSumCsr
SpMMSumCsr(rid) ==
  /\ pc = "csr"
  /\ reduce = "sum"
  /\ rid \notin rows_done
  /\ LET row_start == indptr[rid]
         row_end == indptr[rid + 1]
     IN O' = [O EXCEPT !["csr"] =
                [i \in DOMAIN @ |->
                   IF i \in (rid * dim) .. (rid * dim + dim - 1)
                   THEN SumAccum(i - rid * dim, row_start, row_end)
                   ELSE @[i]]]
  /\ rows_done' = rows_done \cup {rid}
  /\ pc' = IF rows_done' = Range0(num_rows) THEN "coo_fill" ELSE "csr"
  /\ UNCHANGED <<inputVars, notSpMM,
                 X, W, argX, argW, wk>>

\* <<accum, ax, aw>> after the j-loop of SpMMCmpCsr has run over [row_start, j)
RECURSIVE CmpAccum(_, _, _)
CmpAccum(k, row_start, j) ==
  IF j <= row_start THEN <<CmpZero(reduce), 0, 0>>
  ELSE LET prev == CmpAccum(k, row_start, j - 1)
           cid == indices[j - 1]
           eid == Eid(j - 1)
           val == OpCall(op, cid * dim + k, eid * dim + k)
       IN IF CmpCall(reduce, prev[1], val)
          THEN <<val,
                 IF use_lhs(op) THEN cid ELSE prev[2],
                 IF use_rhs(op) THEN eid ELSE prev[3]>>
          ELSE prev

\* one iteration (row rid) of the parallel loop of SpMMCmpCsr
SpMMCmpCsr(rid) ==
  /\ pc = "csr"
  /\ reduce \in {"max", "min"}
  /\ rid \notin rows_done
  /\ LET row_start == indptr[rid]
         row_end == indptr[rid + 1]
         cells == (rid * dim) .. (rid * dim + dim - 1)
         res(i) == CmpAccum(i - rid * dim, row_start, row_end)
     IN /\ O' = [O EXCEPT !["csr"] =
                   [i \in DOMAIN @ |-> IF i \in cells THEN res(i)[1] ELSE @[i]]]
        /\ argX' = [argX EXCEPT !["csr"] =
                   [i \in DOMAIN @ |->
                      IF i \in cells /\ use_lhs(op) THEN res(i)[2] ELSE @[i]]]
        /\ argW' = [argW EXCEPT !["csr"] =
                   [i \in DOMAIN @ |->
                      IF i \in cells /\ use_rhs(op) THEN res(i)[3] ELSE @[i]]]
  /\ rows_done' = rows_done \cup {rid}
  /\ pc' = IF rows_done' = Range0(num_rows) THEN "coo_fill" ELSE "csr"
  /\ UNCHANGED <<inputVars, notSpMM,
                 X, W, wk>>

\* ------------------------------------------------------------ COO kernels
\* memset(O, 0, out.GetSize())
SpMMSumCooZero ==
  /\ pc = "coo_fill"
  /\ reduce = "sum"
  /\ O' = [O EXCEPT !["coo"] = [i \in DOMAIN @ |-> 0]]
  /\ pc' = "coo_spmm"
  /\ UNCHANGED <<inputVars, notSpMM,
                 X, W, argX, argW, rows_done, wk>>

\* mutant of AtomicAdd: a plain store
PlainStore(arr, cell, val) == [arr EXCEPT ![cell] = val]

\* #pragma omp atomic: out_off[k] += val
AtomicAdd(arr, cell, val) == [arr EXCEPT ![cell] = @ + val]

\* one step (feature k = wk[i]) of iteration i of the parallel loop of SpMMSumCoo
SpMMSumCoo(i) ==
  /\ pc = "coo_spmm"
  /\ reduce = "sum"
  /\ wk[i] < dim
  /\ LET rid == row[i]
         cid == col[i]
         eid == Eid(i)
         k == wk[i]
         val == OpCall(op, rid * dim + k, eid * dim + k)
     IN O' = [O EXCEPT !["coo"] = AtomicAdd(@, cid * dim + k, val)]
  /\ wk' = [wk EXCEPT ![i] = @ + 1]
  /\ UNCHANGED <<inputVars, notSpMM,
                 X, W, argX, argW, pc, rows_done>>

\* a fill loop that clears the argument tensors as well
SpMMCmpCooFillArgs ==
  /\ pc = "coo_fill"
  /\ reduce \in {"max", "min"}
  /\ O' = [O EXCEPT !["coo"] = [i \in DOMAIN @ |-> CmpZero(reduce)]]
  /\ argX' = [argX EXCEPT !["coo"] = [i \in DOMAIN @ |-> 0]]
  /\ argW' = [argW EXCEPT !["coo"] = [i \in DOMAIN @ |-> 0]]
  /\ pc' = "coo_spmm"
  /\ UNCHANGED <<inputVars, notSpMM, X, W, rows_done, wk>>

\* the parallel fill loop: O[i] = Cmp::zero for every i < out.Numel()
SpMMCmpCooFill ==
  /\ pc = "coo_fill"
  /\ reduce \in {"max", "min"}
  /\ O' = [O EXCEPT !["coo"] = [i \in DOMAIN @ |-> CmpZero(reduce)]]
  /\ pc' = "coo_spmm"
  /\ UNCHANGED <<inputVars, notSpMM,
                 X, W, argX, argW, rows_done, wk>>

\* #pragma omp critical: the test and the three writes, as one step
SpMMCmpCoo(i) ==
  /\ pc = "coo_spmm"
  /\ reduce \in {"max", "min"}
  /\ wk[i] < dim
  /\ LET rid == row[i]
         cid == col[i]
         eid == Eid(i)
         k == wk[i]
         val == OpCall(op, rid * dim + k, eid * dim + k)
         cell == cid * dim + k
     IN IF CmpCall(reduce, O["coo"][cell], val)
        THEN /\ O' = [O EXCEPT !["coo"][cell] = val]
             /\ argX' = IF use_lhs(op)
                        THEN [argX EXCEPT !["coo"][cell] = rid] ELSE argX
             /\ argW' = IF use_rhs(op)
                        THEN [argW EXCEPT !["coo"][cell] = eid] ELSE argW
        ELSE UNCHANGED <<O, argX, argW>>
  /\ wk' = [wk EXCEPT ![i] = @ + 1]
  /\ UNCHANGED <<inputVars, notSpMM,
                 X, W, pc, rows_done>>

SumNext ==
  \/ \E rid \in Range0(num_rows) : SpMMSumCsr(rid)
  \/ SpMMSumCooZero
  \/ \E i \in Range0(nnz) : SpMMSumCoo(i)

CmpNext ==
  \/ \E rid \in Range0(num_rows) : SpMMCmpCsr(rid)
  \/ SpMMCmpCooFill
  \/ \E i \in Range0(nnz) : SpMMCmpCoo(i)

\* ------------------------------------------------------------ claims: SpMM
\* the COO kernel has returned: every iteration has run over every feature
CooDone == pc = "coo_spmm" /\ \A i \in Range0(nnz) : wk[i] = dim

RECURSIVE FnSum(_)
FnSum(f) ==
  IF DOMAIN f = {} THEN 0
  ELSE LET j == CHOOSE x \in DOMAIN f : TRUE
       IN f[j] + FnSum([x \in DOMAIN f \ {j} |-> f[x]])

\* Op(left[node*dim + k], right[eid*dim + k]), read off the feature tensors
Candidate(node, eid, k) ==
  OpVal(op, IF use_lhs(op) THEN X[node * dim + k] ELSE 0,
            IF use_rhs(op) THEN W[eid * dim + k] ELSE 0)

\* eid_j: the data array's entry when the matrix carries one, else the position
ClaimEid(j) == IF edges = NullArray THEN j ELSE edges[j]

RowPositions(r) == indptr[r] .. (indptr[r + 1] - 1)

\* the CSR kernel is running or has just returned
InCsrCall == pc \in {"csr", "coo_fill"}

\* C1: after SpMMSumCsr has run row r, out[r*dim + k] is the sum over the row's
\* nonzero positions j of Op(left[indices[j]*dim + k], right[eid_j*dim + k]);
\* a row with indptr[r] = indptr[r+1] gets 0 for every k.
C1_SumCsr ==
  (reduce = "sum" /\ InCsrCall) =>
    \A r \in rows_done, k \in Range0(dim) :
      /\ O["csr"][r * dim + k] =
           FnSum([j \in RowPositions(r) |-> Candidate(indices[j], ClaimEid(j), k)])
      /\ indptr[r] = indptr[r + 1] => O["csr"][r * dim + k] = 0

\* a finished sum over a matrix with a data array, a row of two nonzeros and an
\* empty row, whose result is not all zero
C1_Witness ==
  /\ reduce = "sum"
  /\ InCsrCall
  /\ rows_done = Range0(num_rows)
  /\ has_idx
  /\ \E r \in Range0(num_rows) : indptr[r + 1] - indptr[r] >= 2
  /\ \E r \in Range0(num_rows) : indptr[r + 1] = indptr[r]
  /\ \E i \in DOMAIN O["csr"] : O["csr"][i] # 0

\* C2 as stated: the COO arrays list the CSR's entries (row = r, col = indices[j],
\* edge id = eid_j), and the CSR and the COO kernel give equal output tensors.
C2_SameEntries ==
  (CooDone /\ layout = "same") => O["csr"] = O["coo"]

\* C2, amended: the outputs are equal when the COO arrays list the CSR's entries
\* transposed (row = indices[j], col = r, edge id = eid_j), i.e. the CSR is the
\* by-destination view of the COO's edges.
C2_TransposedEntries ==
  (CooDone /\ layout = "transposed") => O["csr"] = O["coo"]

C2_Witness ==
  /\ CooDone
  /\ layout = "transposed"
  /\ nnz = MaxNnz
  /\ \E j \in Range0(nnz) : row[j] # col[j]
  /\ \E i \in DOMAIN O["coo"] : O["coo"][i] \notin {0, DTypeLowest, DTypeMax}

\* nonzeros aimed at column c whose step for feature k has run
Added(c, k) == { i \in Range0(nnz) : col[i] = c /\ wk[i] > k }

\* C4: SpMMSumCoo under every interleaving: no add happens before the output is
\* zeroed, and from then on out[c*dim + k] is exactly the sum of the values of
\* the nonzeros with col = c already added (no addition is lost); at the end it
\* is the sum over all nonzeros with col = c, and 0 for a cell none targets.
C4_SumCoo ==
  reduce = "sum" =>
    /\ pc # "coo_spmm" => \A i \in Range0(nnz) : wk[i] = 0
    /\ pc = "coo_spmm" =>
         \A c \in Range0(num_rows), k \in Range0(dim) :
           O["coo"][c * dim + k] =
             FnSum([i \in Added(c, k) |-> Candidate(row[i], ClaimEid(i), k)])

\* the kernel has finished, two nonzeros were added into the same nonzero cell,
\* and another column had none
C4_Witness ==
  /\ reduce = "sum"
  /\ CooDone
  /\ \E i, j \in Range0(nnz) : i # j /\ col[i] = col[j]
                                /\ O["coo"][col[i] * dim] # 0
  /\ \E c \in Range0(num_rows) : \A i \in Range0(nnz) : col[i] # c

\* the extreme of a non-empty set of values under the compare operator
Extreme(c, S) ==
  CHOOSE v \in S : \A u \in S : IF c = "max" THEN u <= v ELSE u >= v

\* C5: SpMMCmpCoo under every interleaving: at the end out[c*dim + k] is the
\* extreme of the candidates of the nonzeros with col = c, or the identity when
\* there is none; and at every moment a cell some candidate has replaced holds
\* the candidate of one single nonzero with col = c, whose row id (left argument
\* tensor) and edge id (right argument tensor) are the recorded arguments of
\* every operand the operator uses.
C5_CmpCoo ==
  (reduce \in {"max", "min"} /\ pc = "coo_spmm") =>
    \A c \in Range0(num_rows), k \in Range0(dim) :
      LET cell == c * dim + k
          all == { i \in Range0(nnz) : col[i] = c }
      IN /\ CooDone =>
              O["coo"][cell] =
                IF all = {} THEN CmpZero(reduce)
                ELSE Extreme(reduce, { Candidate(row[i], ClaimEid(i), k) : i \in all })
         /\ O["coo"][cell] # CmpZero(reduce) =>
              \E i \in Added(c, k) :
                /\ Candidate(row[i], ClaimEid(i), k) = O["coo"][cell]
                /\ use_lhs(op) => argX["coo"][cell] = row[i]
                /\ use_rhs(op) => argW["coo"][cell] = ClaimEid(i)

\* finished, with two nonzeros of different rows tied on the extreme of one cell
C5_Witness ==
  /\ reduce \in {"max", "min"}
  /\ CooDone
  /\ use_lhs(op) /\ use_rhs(op)
  /\ \E i, j \in Range0(nnz) :
       /\ i # j /\ col[i] = col[j] /\ row[i] # row[j]
       /\ Candidate(row[i], ClaimEid(i), 0) = Candidate(row[j], ClaimEid(j), 0)
       /\ O["coo"][col[i] * dim] = Candidate(row[i], ClaimEid(i), 0)
       /\ O["coo"][col[i] * dim] # CmpZero(reduce)

\* the first position of row r, in traversal order, whose candidate is v
FirstAttaining(r, k, v) ==
  CHOOSE j \in RowPositions(r) :
    /\ Candidate(indices[j], ClaimEid(j), k) = v
    /\ \A h \in RowPositions(r) :
         Candidate(indices[h], ClaimEid(h), k) = v => j <= h

\* the fold of the row's candidates from the identity with the strict comparison
FoldValue(r, k) ==
  Extreme(reduce, {CmpZero(reduce)}
                    \cup { Candidate(indices[j], ClaimEid(j), k) : j \in RowPositions(r) })

ArgsAre(cell, node, eid) ==
  /\ use_lhs(op) => argX["csr"][cell] = node
  /\ use_rhs(op) => argW["csr"][cell] = eid

\* C6 as stated: out[r*dim + k] is the strict fold of the row's candidates, the
\* recorded argument is that of the first nonzero of the row whose candidate
\* attains the final value, and a degree-zero row keeps the identity and argument 0.
C6_FirstAttaining ==
  (reduce \in {"max", "min"} /\ InCsrCall) =>
    \A r \in rows_done, k \in Range0(dim) :
      LET cell == r * dim + k
      IN /\ O["csr"][cell] = FoldValue(r, k)
         /\ IF RowPositions(r) = {}
            THEN O["csr"][cell] = CmpZero(reduce) /\ ArgsAre(cell, 0, 0)
            ELSE LET j == FirstAttaining(r, k, O["csr"][cell])
                 IN ArgsAre(cell, indices[j], ClaimEid(j))

\* C6, amended: the recorded argument is that of the first nonzero whose
\* candidate attains the final value when that value differs from the identity;
\* a row none of whose candidates is strictly better than the identity
\* (a degree-zero row included) keeps the identity and argument 0.
C6_CmpCsr ==
  (reduce \in {"max", "min"} /\ InCsrCall) =>
    \A r \in rows_done, k \in Range0(dim) :
      LET cell == r * dim + k
      IN /\ O["csr"][cell] = FoldValue(r, k)
         /\ IF O["csr"][cell] = CmpZero(reduce)
            THEN ArgsAre(cell, 0, 0)
            ELSE LET j == FirstAttaining(r, k, O["csr"][cell])
                 IN ArgsAre(cell, indices[j], ClaimEid(j))

\* a finished row with two tied extreme candidates of different neighbours, and
\* an empty row
C6_Witness ==
  /\ reduce \in {"max", "min"}
  /\ InCsrCall
  /\ rows_done = Range0(num_rows)
  /\ use_lhs(op)
  /\ \E r \in Range0(num_rows) : RowPositions(r) = {}
  /\ \E r \in Range0(num_rows) :
       \E i, j \in RowPositions(r) :
         /\ i < j /\ indices[i] # indices[j]
         /\ Candidate(indices[i], ClaimEid(i), 0) = O["csr"][r * dim]
         /\ Candidate(indices[j], ClaimEid(j), 0) = O["csr"][r * dim]
         /\ argX["csr"][r * dim] = indices[i]


\* the candidate v would replace the identity under the strict comparison
BeatsIdentity(v) ==
  IF reduce = "max" THEN v > CmpZero(reduce) ELSE v < CmpZero(reduce)

\* no candidate tried so far on cell (c, k) has replaced the stored value
NeverReplaced(c, k) ==
  \A i \in Added(c, k) : ~BeatsIdentity(Candidate(row[i], ClaimEid(i), k))

\* C12: SpMMCmpCoo never initialises the argument tensors: before its second
\* loop they are as the caller left them, and every cell (c, k) no candidate has
\* replaced holds the identity in out and the caller's values in argu and arge;
\* the same cell of SpMMCmpCsr holds argument 0 for each operand used.
C12_ArgsUntouched ==
  reduce \in {"max", "min"} =>
    /\ pc = "coo_fill" =>
         /\ argX["coo"] = Stale(num_rows * dim)
         /\ argW["coo"] = Stale(num_rows * dim)
    /\ pc = "coo_spmm" =>
         \A c \in Range0(num_rows), k \in Range0(dim) :
           LET cell == c * dim + k
           IN NeverReplaced(c, k) =>
                /\ O["coo"][cell] = CmpZero(reduce)
                /\ argX["coo"][cell] = Stale(num_rows * dim)[cell]
                /\ argW["coo"][cell] = Stale(num_rows * dim)[cell]
                /\ O["csr"][cell] = CmpZero(reduce) => ArgsAre(cell, 0, 0)

\* C12 (witness): SpMMCmpCoo has finished; one cell has a nonzero whose
\* candidate was tried and did not beat the identity, another has no nonzero at
\* all; both still hold the caller's argument values, which are not 0.
C12_Witness ==
  /\ reduce \in {"max", "min"}
  /\ CooDone
  /\ use_lhs(op)
  /\ \E c \in Range0(num_rows) :
       /\ Added(c, 0) # {}
       /\ NeverReplaced(c, 0)
       /\ argX["coo"][c * dim] = 0 - 1
  /\ \E c \in Range0(num_rows) :
       /\ \A i \in Range0(nnz) : col[i] # c
       /\ argX["coo"][c * dim] = 0 - 1

\* ------------------------------------------------------------ SDDMM kernels
\* the loop of BinarySearchSrc: the common value of lo and hi when it ends
RECURSIVE BinarySearchLoop(_, _, _, _)
BinarySearchLoop(array, lo, hi, eid) ==
  IF lo < hi
  THEN LET mid == (lo + hi) \div 2
       IN IF array[mid] <= eid
          THEN BinarySearchLoop(array, mid + 1, hi, eid)
          ELSE BinarySearchLoop(array, lo, mid, eid)
  ELSE hi

\* Binary search the row_offsets to find the source node of the edge id.
BinarySearchSrc(array, length, eid) ==
  LET hi == BinarySearchLoop(array, 0, length - 1, eid)
  IN IF array[hi] = eid THEN hi ELSE hi - 1

\* feature pointers: nullptr, and ufeat + n (vfeat + n) as <<n>>
nullptr == <<>>
Ptr(n) == <<n>>

\* base + offset; arithmetic on nullptr yields no slice to read
PtrAdd(base, offset) == IF base = nullptr THEN nullptr ELSE Ptr(base[1] + offset)

\* BinaryOp::Call(lhs, rhs, reduce_size, reduce_size): the value is determined
\* by the two slices handed over, so it is represented by where they start
BinaryOpCall(lhs, rhs) == <<lhs, rhs>>

\* the inner (tx) loop of both kernels: the cells of outoff = out + eid * out_len
\* after it, given lhsoff and rhsoff
FeatureLoop(o, eid, lhsoff, rhsoff) ==
  [cell \in DOMAIN o |->
     IF cell \in (eid * out_len) .. (eid * out_len + out_len - 1)
     THEN LET tx == cell - eid * out_len
              lhs_add == IF ubcast_off # NullArray THEN ubcast_off[tx] ELSE tx
              rhs_add == IF vbcast_off # NullArray THEN vbcast_off[tx] ELSE tx
          IN BinaryOpCall(PtrAdd(lhsoff, lhs_add * reduce_size),
                          PtrAdd(rhsoff, rhs_add * reduce_size))
     ELSE o[cell]]

\* one iteration (edge position ty) of the outer loop of SDDMMCsrKernel
SDDMMCsrKernel(ty) ==
  /\ pc = "sddmm"
  /\ ty \notin ty_done["csr"]
  /\ LET s == BinarySearchSrc(indptr, num_rows, ty)
         dst == indices[ty]
         eid == IF has_idx THEN edges[ty] ELSE ty
         lhsoff == IF use_lhs(op) THEN Ptr(s * ufeat_len) ELSE nullptr
         rhsoff == IF use_rhs(op) THEN Ptr(dst * vfeat_len) ELSE nullptr
     IN /\ src' = [src EXCEPT !["csr"][ty] = <<s>>]
        /\ out' = [out EXCEPT !["csr"] = FeatureLoop(@, eid, lhsoff, rhsoff)]
  /\ ty_done' = [ty_done EXCEPT !["csr"] = @ \cup {ty}]
  /\ UNCHANGED <<inputVars, pc, notSDDMM, reduce_size, ufeat_len, vfeat_len, out_len,
                 ubcast_off, vbcast_off>>

\* one iteration (edge position ty) of the outer loop of SDDMMCooKernel
SDDMMCooKernel(ty) ==
  /\ pc = "sddmm"
  /\ ty_done["csr"] = Range0(nnz)
  /\ ty \notin ty_done["coo"]
  /\ LET s == row[ty]
         dst == col[ty]
         eid == IF edges # NullArray THEN edges[ty] ELSE ty
         lhsoff == IF use_lhs(op) THEN Ptr(s * ufeat_len * reduce_size) ELSE nullptr
         rhsoff == IF use_rhs(op) THEN Ptr(dst * vfeat_len * reduce_size) ELSE nullptr
     IN /\ src' = [src EXCEPT !["coo"][ty] = <<s>>]
        /\ out' = [out EXCEPT !["coo"] = FeatureLoop(@, eid, lhsoff, rhsoff)]
  /\ ty_done' = [ty_done EXCEPT !["coo"] = @ \cup {ty}]
  /\ UNCHANGED <<inputVars, pc, notSDDMM, reduce_size, ufeat_len, vfeat_len, out_len,
                 ubcast_off, vbcast_off>>

\* the offset table of an operand of feature length len against out_len columns
BcastTable(len) == [tx \in Range0(out_len) |-> IF len = 1 THEN 0 ELSE tx]

\* the kernel parameters as SDDMMCsr / SDDMMCoo (no tables, one length) or
\* SDDMMBcastCsr / SDDMMBcastCoo (both tables, the operands' own lengths) pass them
SDDMMInit ==
  /\ GraphInit({"same"})
  /\ op \in OpNames
  /\ reduce = "none"
  /\ pc = "sddmm"
  /\ reduce_size \in 1 .. MaxReduce
  /\ out_len \in 1 .. MaxDim
  /\ \E bcast \in BOOLEAN :
       IF bcast
       THEN /\ ufeat_len \in {1, out_len}
            /\ vfeat_len \in {1, out_len}
            /\ ubcast_off = BcastTable(ufeat_len)
            /\ vbcast_off = BcastTable(vfeat_len)
       ELSE /\ ufeat_len = out_len
            /\ vfeat_len = out_len
            /\ ubcast_off = NullArray
            /\ vbcast_off = NullArray
  /\ src = [f \in Formats |-> [ty \in Range0(nnz) |-> <<>>]]
  /\ out = [f \in Formats |-> [cell \in Range0(nnz * out_len) |-> <<>>]]
  /\ ty_done = [f \in Formats |-> {}]
  /\ SpMMIdle
  /\ UnravelIdle /\ WorkspaceIdle /\ DispatchIdle /\ GridIdle

SDDMMNext ==
  \/ \E ty \in Range0(nnz) : SDDMMCsrKernel(ty)
  \/ \E ty \in Range0(nnz) : SDDMMCooKernel(ty)

\* ------------------------------------------------------------ claims: SDDMM
\* C3: the source row SDDMMCsrKernel obtains from BinarySearchSrc(indptr, N, p)
\* is the row r with indptr[r] <= p < indptr[r+1], for every edge position p.
C3_SourceRecovery ==
  pc = "sddmm" =>
    \A p \in ty_done["csr"] : src["csr"][p] = <<RowOf(indptr, p)>>

\* flat start of the slice of operand row `node`, feature k, off table `tab`
SliceStart(node, len, tab, k) ==
  (node * len + (IF tab # NullArray THEN tab[k] ELSE k)) * reduce_size

\* C7: for every edge position p and feature k both kernels hand the operator
\* the left slice starting at (src*ufeat_len + k')*reduce_size and the right
\* slice starting at (dst*vfeat_len + k'')*reduce_size, k' = ubcast_off[k] and
\* k'' = vbcast_off[k] (k when the table is absent), and write the result to
\* out[eid*out_len + k].  (src is the source the kernel itself obtained; the
\* claim's corollary, equal outputs of both paths, needs this first.)
C7_Addressing ==
  pc = "sddmm" =>
    \A f \in Formats : \A p \in ty_done[f] : \A k \in Range0(out_len) :
      LET dst == indices[p]
          cell == ClaimEid(p) * out_len + k
      IN /\ use_lhs(op) =>
              out[f][cell][1] = <<SliceStart(src[f][p][1], ufeat_len, ubcast_off, k)>>
         /\ use_rhs(op) =>
              out[f][cell][2] = <<SliceStart(dst, vfeat_len, vbcast_off, k)>>

\* ------------------------------------------------------------ Index Resolver
\* one of the two loops of UnravelRavel, from dimension d on: the operand's
\* flattened index, accumulated on acc; sh and st are the operand's shape and stride
RECURSIVE RavelLoop(_, _, _, _, _, _, _)
RavelLoop(d, acc, idx, n, o, sh, st) ==
  IF d < n
  THEN LET o_sh == o.shape[d]
           o_st == o.stride[d]
           i == (idx \div o_st) % o_sh
       IN RavelLoop(d + 1, IF sh[d] > i THEN acc + i * st[d] ELSE acc,
                    idx, n, o, sh, st)
  ELSE acc

\* UnravelRavel(idx, ndim, out_shape, out_stride, lhs_shape, lhs_stride,
\*              rhs_shape, rhs_stride, lhs_out, rhs_out): <<*lhs_out, *rhs_out>>
\* after the call, from their values l0 and r0 before it
UnravelRavel(a, l0, r0) ==
  LET o == [shape |-> a.out_shape, stride |-> a.out_stride]
  IN IF a.out_stride[0] = a.lhs_stride[0]
     THEN <<a.idx, RavelLoop(0, r0, a.idx, a.ndim, o, a.rhs_shape, a.rhs_stride)>>
     ELSE <<RavelLoop(0, l0, a.idx, a.ndim, o, a.lhs_shape, a.lhs_stride), a.idx>>

CallUnravelRavel ==
  /\ pc = "unravel"
  /\ lhs_out' = UnravelRavel(ur, lhs_out, rhs_out)[1]
  /\ rhs_out' = UnravelRavel(ur, lhs_out, rhs_out)[2]
  /\ pc' = "unravel_ret"
  /\ UNCHANGED <<notUnravel, ur>>

RECURSIVE Product(_, _)
Product(sh, from) ==
  IF from \notin DOMAIN sh THEN 1 ELSE sh[from] * Product(sh, from + 1)

\* row-major strides of a shape
RowMajor(sh) == [d \in DOMAIN sh |-> Product(sh, d + 1)]

\* two operand shapes and the output shape they broadcast to (each extent of an
\* operand is the output's or 1, and one of the two is the output's), with
\* row-major strides, and an output index
UnravelInit ==
  /\ \E n \in 1 .. MaxNdim :
       \E osh \in [Range0(n) -> 1 .. MaxExtent] :
         \E lsh, rsh \in [Range0(n) -> 1 .. MaxExtent] :
           /\ \A d \in Range0(n) :
                /\ lsh[d] \in {osh[d], 1} /\ rsh[d] \in {osh[d], 1}
                /\ osh[d] \in {lsh[d], rsh[d]}
           /\ \E i \in Range0(Product(osh, 0)) :
                ur = [idx |-> i, ndim |-> n,
                      out_shape |-> osh, out_stride |-> RowMajor(osh),
                      lhs_shape |-> lsh, lhs_stride |-> RowMajor(lsh),
                      rhs_shape |-> rsh, rhs_stride |-> RowMajor(rsh)]
  /\ lhs_out = 0
  /\ rhs_out = 0
  /\ pc = "unravel"
  /\ InputIdle /\ SpMMIdle /\ SDDMMIdle /\ WorkspaceIdle /\ DispatchIdle /\ GridIdle

\* ------------------------------------------------------------ claims: Index Resolver
Min(a, b) == IF a <= b THEN a ELSE b

\* sum over the dimensions d >= from of min(coord_d, extent_d - 1) * stride_d
RECURSIVE MinFormula(_, _, _, _)
MinFormula(a, sh, st, from) ==
  IF from >= a.ndim THEN 0
  ELSE Min((a.idx \div a.out_stride[from]) % a.out_shape[from], sh[from] - 1) * st[from]
         + MinFormula(a, sh, st, from + 1)

\* C8: started with *lhs_out = *rhs_out = 0, UnravelRavel returns for each
\* operand the sum over the dimensions of min(coord_d, extent_d - 1) * stride_d.
C8_MinFormula ==
  pc = "unravel_ret" =>
    /\ lhs_out = MinFormula(ur, ur.lhs_shape, ur.lhs_stride, 0)
    /\ rhs_out = MinFormula(ur, ur.rhs_shape, ur.rhs_stride, 0)

\* ------------------------------------------------------------ broadcast-offset workspace
\* info.lhs_offset / info.rhs_offset: the host-resident tables of a call
HostTables == {<<0>>, <<0, 0>>, <<0, 1>>}

HostFunctions == {"SDDMMBcastCoo", "SDDMMBcastCsr"}

\* device->AllocWorkspace: a fresh buffer, its contents not yet written
AllocWorkspace(ws) == Append(ws, [frees |-> 0, data |-> NullArray, call |-> calls])

\* device->FreeWorkspace(ctx, ptr)
FreeWorkspace(ws, ptr) == [ws EXCEPT ![ptr[1]].frees = @ + 1]

\* cudaMemcpy(dst, src, ..., cudaMemcpyHostToDevice) that returned cudaSuccess
Memcpy(ws, dst, table) == [ws EXCEPT ![dst[1]].data = table]

CudaErrors == {"cudaSuccess", "cudaErrorInvalidValue"}

\* CUDA_CALL(func): the statement after it is reached when func returned
\* cudaSuccess; any other result is fatal and the function is left there
CUDA_CALL(e, after) == IF e = "cudaSuccess" THEN after ELSE "fatal"

\* entry of SDDMMBcastCoo / SDDMMBcastCsr
BcastEnter(fn) ==
  /\ pc = "host_idle"
  /\ calls < MaxCalls
  /\ calls' = calls + 1
  /\ \E lo, ro \in HostTables :
       host' = [fn |-> fn, lhs_offset |-> lo, rhs_offset |-> ro,
                ubcast_off |-> nullptr, vbcast_off |-> nullptr,
                launched |-> FALSE, launch_error |-> "none"]
  /\ pc' = "alloc_u"
  /\ UNCHANGED <<notWorkspace, workspace>>

\* int64_t *ubcast_off = device->AllocWorkspace(...)
AllocUbcast ==
  /\ pc = "alloc_u"
  /\ workspace' = AllocWorkspace(workspace)
  /\ host' = [host EXCEPT !.ubcast_off = Ptr(Len(workspace'))]
  /\ pc' = "copy_u"
  /\ UNCHANGED <<notWorkspace, calls>>

\* CUDA_CALL(cudaMemcpy(ubcast_off, &info.lhs_offset[0], ...))
CopyUbcast ==
  /\ pc = "copy_u"
  /\ \E e \in CudaErrors :
       /\ workspace' = IF e = "cudaSuccess"
                       THEN Memcpy(workspace, host.ubcast_off, host.lhs_offset)
                       ELSE workspace
       /\ pc' = CUDA_CALL(e, "alloc_v")
  /\ UNCHANGED <<notWorkspace, host, calls>>

\* int64_t *vbcast_off = device->AllocWorkspace(...)
AllocVbcast ==
  /\ pc = "alloc_v"
  /\ workspace' = AllocWorkspace(workspace)
  /\ host' = [host EXCEPT !.vbcast_off = Ptr(Len(workspace'))]
  /\ pc' = "copy_v"
  /\ UNCHANGED <<notWorkspace, calls>>

\* CUDA_CALL(cudaMemcpy(vbcast_off, &info.rhs_offset[0], ...))
CopyVbcast ==
  /\ pc = "copy_v"
  /\ \E e \in CudaErrors :
       /\ workspace' = IF e = "cudaSuccess"
                       THEN Memcpy(workspace, host.vbcast_off, host.rhs_offset)
                       ELSE workspace
       /\ pc' = CUDA_CALL(e, "launch")
  /\ UNCHANGED <<notWorkspace, host, calls>>

\* SDDMMCooKernel<<<...>>>(..., ubcast_off, vbcast_off, ...) or
\* SDDMMCsrKernel<<<...>>>(...): the launch returns nothing and its error, if
\* any, is not looked at
LaunchKernel ==
  /\ pc = "launch"
  /\ \E e \in CudaErrors :
       host' = [host EXCEPT !.launched = TRUE, !.launch_error = e]
  /\ pc' = "free_u"
  /\ UNCHANGED <<notWorkspace, workspace, calls>>

\* device->FreeWorkspace(ctx, ubcast_off)
FreeUbcast ==
  /\ pc = "free_u"
  /\ workspace' = FreeWorkspace(workspace, host.ubcast_off)
  /\ pc' = "free_v"
  /\ UNCHANGED <<notWorkspace, host, calls>>

\* device->FreeWorkspace(ctx, vbcast_off), and the return
FreeVbcast ==
  /\ pc = "free_v"
  /\ workspace' = FreeWorkspace(workspace, host.vbcast_off)
  /\ pc' = "host_ret"
  /\ UNCHANGED <<notWorkspace, host, calls>>

\* the caller goes on to its next call
BcastReturn ==
  /\ pc = "host_ret"
  /\ calls < MaxCalls
  /\ pc' = "host_idle"
  /\ UNCHANGED <<notWorkspace, wsVars>>

WorkspaceInit ==
  /\ workspace = <<>>
  /\ host = NullArray
  /\ calls = 0
  /\ pc = "host_idle"
  /\ InputIdle /\ SpMMIdle /\ SDDMMIdle /\ UnravelIdle /\ DispatchIdle /\ GridIdle

WorkspaceNext ==
  \/ \E fn \in HostFunctions : BcastEnter(fn)
  \/ AllocUbcast
  \/ CopyUbcast
  \/ AllocVbcast
  \/ CopyVbcast
  \/ LaunchKernel
  \/ FreeUbcast
  \/ FreeVbcast
  \/ BcastReturn

\* ------------------------------------------------------------ claims: workspace
CallEnded == pc \in {"host_ret", "fatal"}

\* C9: when a call of SDDMMBcastCoo / SDDMMBcastCsr has ended, by its return or
\* by a failed copy, every workspace buffer has been freed exactly once; and no
\* buffer of the running call is freed before its kernel was launched.
C9_WorkspaceBracket ==
  /\ CallEnded => \A b \in DOMAIN workspace : workspace[b].frees = 1
  /\ \A b \in DOMAIN workspace :
       (workspace[b].call = calls /\ workspace[b].frees > 0) => host.launched

\* ------------------------------------------------------------ dispatch
\* the names a caller may pass as op
OpSelectors == OpNames \cup {"sub", "div", "dot", "copy_lhs", ""}

\* the typedef a copied branch of SWITCH_OP would give "copy_e"
SwitchOpCopied(name) ==
  CASE name = "add" -> "Add"
    [] name = "mul" -> "Mul"
    [] name = "copy_u" -> "CopyLhs"
    [] name = "copy_e" -> "CopyLhs"
    [] OTHER -> "none"

\* the typedef Op of the branch of SWITCH_OP that name selects; "none" for the
\* last else
SwitchOp(name) ==
  CASE name = "add" -> "Add"
    [] name = "mul" -> "Mul"
    [] name = "copy_u" -> "CopyLhs"
    [] name = "copy_e" -> "CopyRhs"
    [] OTHER -> "none"

\* SWITCH_OP(op, Op, { body })
SWITCH_OP ==
  /\ pc = "call"
  /\ IF SwitchOp(op) # "none"
     THEN /\ body_ran' = SwitchOp(op)
          /\ log_fatal' = log_fatal
     ELSE /\ body_ran' = body_ran
          /\ log_fatal' = <<"Unsupported SpMM binary operator: ", op>>
  /\ pc' = "switch_ret"
  /\ UNCHANGED <<notDispatch, spmmVars>>

SpMMBcastSumCsr ==
  /\ pc = "call"
  /\ log_fatal' = <<"not implemented">>
  /\ pc' = "bcast_sum_ret"
  /\ UNCHANGED <<notDispatch, spmmVars, body_ran>>

SpMMBcastCmpCsr ==
  /\ pc = "call"
  /\ log_fatal' = <<"not implemented">>
  /\ pc' = "bcast_cmp_ret"
  /\ UNCHANGED <<notDispatch, spmmVars, body_ran>>

\* what an output or argument tensor may hold before a call
TensorContents(n) == {Garbage(n), Stale(n), [i \in Range0(n) |-> 0]}

\* an operator name and the tensors out, argu, arge of a caller
DispatchInit ==
  /\ indptr = NullArray /\ indices = NullArray /\ has_idx = FALSE
  /\ edges = NullArray /\ row = NullArray /\ col = NullArray
  /\ layout = "none" /\ reduce = "none"
  /\ op \in OpSelectors
  /\ X = NullArray /\ W = NullArray
  /\ O \in TensorContents(MaxRows * MaxDim)
  /\ argX \in TensorContents(MaxRows * MaxDim)
  /\ argW \in TensorContents(MaxRows * MaxDim)
  /\ rows_done = {} /\ wk = NullArray
  /\ body_ran = "none"
  /\ log_fatal = NullArray
  /\ pc = "call"
  /\ SDDMMIdle /\ UnravelIdle /\ WorkspaceIdle /\ GridIdle

DispatchNext == SWITCH_OP \/ SpMMBcastSumCsr \/ SpMMBcastCmpCsr

\* ------------------------------------------------------------ claims: dispatch
Unimplemented == {"bcast_sum_ret", "bcast_cmp_ret"}

\* what the claim says of SWITCH_OP after it ran
SwitchOutcome ==
  /\ op = "add" => body_ran = "Add" /\ log_fatal = NullArray
  /\ op = "mul" => body_ran = "Mul" /\ log_fatal = NullArray
  /\ op = "copy_u" => body_ran = "CopyLhs" /\ log_fatal = NullArray
  /\ op = "copy_e" => body_ran = "CopyRhs" /\ log_fatal = NullArray
  /\ op \notin {"add", "mul", "copy_u", "copy_e"} =>
       body_ran = "none" /\ log_fatal # NullArray

\* C10: SWITCH_OP runs its body with Add for "add", Mul for "mul", CopyLhs for
\* "copy_u" and CopyRhs for "copy_e", and for every other name raises the fatal
\* error without running the body; SpMMBcastSumCsr and SpMMBcastCmpCsr raise the
\* fatal error and leave the output and argument tensors unchanged.
C10_Dispatch ==
  /\ [](pc = "switch_ret" => SwitchOutcome)
  /\ [](pc \in Unimplemented => log_fatal = <<"not implemented">>)
  /\ [][pc' \in Unimplemented => UNCHANGED <<O, argX, argW>>]_vars

\* C10 (witness): SWITCH_OP was given a name it does not know and raised the
\* fatal error, the body not run.
C10_Witness ==
  /\ pc = "switch_ret"
  /\ op = "sub"
  /\ body_ran = "none"
  /\ log_fatal = <<"Unsupported SpMM binary operator: ", "sub">>

\* ------------------------------------------------------------ SDDMM launch, by thread
\* the threads of a launch l: <<blockIdx.x, blockIdx.y, threadIdx.x, threadIdx.y>>
Threads(l) ==
  Range0(l.gridDim.x) \X Range0(l.gridDim.y) \X Range0(l.blockDim.x) \X Range0(l.blockDim.y)

\* a stride that leaves the grid's extent out
StrideBlockOnly(blockDim, gridDim) == blockDim

\* const Idx stride_y = blockDim.y * gridDim.y (stride_x alike)
Stride(blockDim, gridDim) == blockDim * gridDim

\* Idx ty = blockIdx.y * blockDim.y + threadIdx.y
Ty0(l, t) == t[2] * l.blockDim.y + t[4]

\* int tx = blockIdx.x * blockDim.x + threadIdx.x
Tx0(l, t) == t[1] * l.blockDim.x + t[3]

\* the loops of thread t from the test of `while (ty < E)` on: the (ty, tx) of
\* the next execution of the inner loop's body, <<>> when the thread ends
RECURSIVE EnterOuter(_, _, _)
EnterOuter(l, t, ty) ==
  IF ty < nnz
  THEN IF Tx0(l, t) < out_len
       THEN <<ty, Tx0(l, t)>>
       ELSE EnterOuter(l, t, ty + Stride(l.blockDim.y, l.gridDim.y))
  ELSE <<>>

\* tx += stride_x and what follows, up to the next execution of the body
AfterBody(l, t, ty, tx) ==
  IF tx + Stride(l.blockDim.x, l.gridDim.x) < out_len
  THEN <<ty, tx + Stride(l.blockDim.x, l.gridDim.x)>>
  ELSE EnterOuter(l, t, ty + Stride(l.blockDim.y, l.gridDim.y))

\* outoff[tx] = BinaryOp::Call(lhsoff + lhs_add * reduce_size, ...)
StoreOut(o, eid, lhsoff, rhsoff, tx) ==
  LET lhs_add == IF ubcast_off # NullArray THEN ubcast_off[tx] ELSE tx
      rhs_add == IF vbcast_off # NullArray THEN vbcast_off[tx] ELSE tx
  IN [o EXCEPT ![eid * out_len + tx] =
        BinaryOpCall(PtrAdd(lhsoff, lhs_add * reduce_size),
                     PtrAdd(rhsoff, rhs_add * reduce_size))]

\* one execution of the inner loop's body by thread t of SDDMMCsrKernel
SDDMMCsrThread(t) ==
  /\ pc = "grid"
  /\ launch.kernel = "csr"
  /\ thread[t] # <<>>
  /\ LET ty == thread[t][1]
         tx == thread[t][2]
         s == BinarySearchSrc(indptr, num_rows, ty)
         dst == indices[ty]
         eid == IF has_idx THEN edges[ty] ELSE ty
         lhsoff == IF use_lhs(op) THEN Ptr(s * ufeat_len) ELSE nullptr
         rhsoff == IF use_rhs(op) THEN Ptr(dst * vfeat_len) ELSE nullptr
     IN /\ src' = [src EXCEPT !["csr"][ty] = <<s>>]
        /\ out' = [out EXCEPT !["csr"] = StoreOut(@, eid, lhsoff, rhsoff, tx)]
        /\ wrote' = [wrote EXCEPT ![eid * out_len + tx] = Append(@, <<t, ty, tx>>)]
        /\ thread' = [thread EXCEPT ![t] = AfterBody(launch, t, ty, tx)]
  /\ UNCHANGED <<inputVars, pc, notGrid, launch, reduce_size, ufeat_len, vfeat_len,
                 out_len, ubcast_off, vbcast_off, ty_done>>

\* one execution of the inner loop's body by thread t of SDDMMCooKernel
SDDMMCooThread(t) ==
  /\ pc = "grid"
  /\ launch.kernel = "coo"
  /\ thread[t] # <<>>
  /\ LET ty == thread[t][1]
         tx == thread[t][2]
         s == row[ty]
         dst == col[ty]
         eid == IF edges # NullArray THEN edges[ty] ELSE ty
         lhsoff == IF use_lhs(op) THEN Ptr(s * ufeat_len * reduce_size) ELSE nullptr
         rhsoff == IF use_rhs(op) THEN Ptr(dst * vfeat_len * reduce_size) ELSE nullptr
     IN /\ src' = [src EXCEPT !["coo"][ty] = <<s>>]
        /\ out' = [out EXCEPT !["coo"] = StoreOut(@, eid, lhsoff, rhsoff, tx)]
        /\ wrote' = [wrote EXCEPT ![eid * out_len + tx] = Append(@, <<t, ty, tx>>)]
        /\ thread' = [thread EXCEPT ![t] = AfterBody(launch, t, ty, tx)]
  /\ UNCHANGED <<inputVars, pc, notGrid, launch, reduce_size, ufeat_len, vfeat_len,
                 out_len, ubcast_off, vbcast_off, ty_done>>

\* <<<nblks, nthrs>>> of any extents, for either kernel
AnyLaunch ==
  { [kernel |-> f, shape |-> "any",
     gridDim |-> [x |-> gx, y |-> gy], blockDim |-> [x |-> bx, y |-> by]] :
       f \in Formats, gx \in 1 .. MaxGrid, gy \in 1 .. MaxGrid,
       bx \in 1 .. MaxBlock, by \in 1 .. MaxBlock }

\* SDDMMCsr: nblks(E, 1), nthrs(1, (128 < len) ? 128 : len)
SDDMMCsrLaunch(E, len) ==
  [kernel |-> "csr", shape |-> "SDDMMCsr",
   gridDim |-> [x |-> E, y |-> 1],
   blockDim |-> [x |-> 1, y |-> IF CsrThreadsY < len THEN CsrThreadsY ELSE len]]

\* a CSR matrix of E entries (all in its first or all in its last row) and its
\* COO listing, an output of out_len features per edge, and a launch; every
\* thread stands at its first (ty, tx)
GridInit ==
  /\ \E E \in 0 .. MaxNnz :
       indptr \in { f \in IndptrSet(num_rows, E) : f[1] = E \/ f[num_rows - 1] = 0 }
  /\ indices = [j \in Range0(nnz) |-> j % num_rows]
  /\ has_idx \in BOOLEAN
  /\ edges \in (IF has_idx THEN EdgePerms(nnz) ELSE {NullArray})
  /\ layout = "same"
  /\ row = [j \in Range0(nnz) |-> RowOf(indptr, j)]
  /\ col = indices
  /\ op = "add"
  /\ reduce = "none"
  /\ pc = "grid"
  /\ reduce_size = 1
  /\ out_len \in 1 .. MaxDim
  /\ ufeat_len = out_len
  /\ vfeat_len = out_len
  /\ ubcast_off = NullArray
  /\ vbcast_off = NullArray
  /\ src = [f \in Formats |-> [ty \in Range0(nnz) |-> <<>>]]
  /\ out = [f \in Formats |-> [cell \in Range0(nnz * out_len) |-> <<>>]]
  /\ ty_done = [f \in Formats |-> {}]
  /\ launch \in AnyLaunch \cup {SDDMMCsrLaunch(nnz, out_len)}
  /\ thread = [t \in Threads(launch) |-> EnterOuter(launch, t, Ty0(launch, t))]
  /\ wrote = [cell \in Range0(nnz * out_len) |-> <<>>]
  /\ SpMMIdle /\ UnravelIdle /\ WorkspaceIdle /\ DispatchIdle

GridNext ==
  \/ \E t \in DOMAIN thread : SDDMMCsrThread(t)
  \/ \E t \in DOMAIN thread : SDDMMCooThread(t)

\* ------------------------------------------------------------ claims: SDDMM launch
\* the executions of the loop body for edge position p and feature k, as
\* <<cell, index in the cell's writes>>
Processed(p, k) ==
  { ci \in UNION { {c} \X (1 .. Len(wrote[c])) : c \in DOMAIN wrote } :
      wrote[ci[1]][ci[2]][2] = p /\ wrote[ci[1]][ci[2]][3] = k }

EdgeMapInjective ==
  \/ ~has_idx
  \/ \A i, j \in Range0(nnz) : edges[i] = edges[j] => i = j

GridDone == \A t \in DOMAIN thread : thread[t] = <<>>

\* C11: in a launch of SDDMMCooKernel or SDDMMCsrKernel no pair (edge position
\* p, feature k) is ever processed twice and, the edge map absent or injective,
\* no cell of out is ever written twice; when every thread has ended, each pair
\* has been processed exactly once and each cell out[eid*out_len + k] written
\* exactly once.
C11_GridCoverage ==
  pc = "grid" =>
    /\ \A p \in Range0(nnz), k \in Range0(out_len) :
         /\ Cardinality(Processed(p, k)) <= 1
         /\ GridDone => Cardinality(Processed(p, k)) = 1
    /\ EdgeMapInjective =>
         \A c \in DOMAIN wrote :
           /\ Len(wrote[c]) <= 1
           /\ GridDone => Len(wrote[c]) = 1

\* C11 (witness): the SDDMMCsr launch shape, with fewer threads along y than
\* there are edges and an edge map present, has run to its end: a thread has
\* gone round its outer loop more than once and every cell is written.
C11_Witness ==
  /\ pc = "grid"
  /\ GridDone
  /\ launch.shape = "SDDMMCsr"
  /\ has_idx
  /\ Stride(launch.blockDim.y, launch.gridDim.y) < nnz
  /\ \A c \in DOMAIN wrote : Len(wrote[c]) = 1

\* ------------------------------------------------------------ specifications
Layouts == {"same", "transposed"}

\* both reductions on both listings of the matrix
Init == SpMMInit({"sum", "max", "min"}, Layouts, {"generic", "tied"})
Next == SumNext \/ CmpNext
Spec == Init /\ [][Next]_vars

\* the sum kernels
SumInit == SpMMInit({"sum"}, Layouts, FeatKinds)
SpecSum == SumInit /\ [][SumNext]_vars

\* the compare kernels
CmpInit == SpMMInit({"max", "min"}, {"transposed"}, FeatKinds)
SpecCmp == CmpInit /\ [][CmpNext]_vars

\* the SDDMM kernels, CSR then COO, on the same edges
SpecSDDMM == SDDMMInit /\ [][SDDMMNext]_vars

\* one call of UnravelRavel
SpecUnravel == UnravelInit /\ [][CallUnravelRavel]_vars

\* calls of SDDMMBcastCoo / SDDMMBcastCsr
SpecWorkspace == WorkspaceInit /\ [][WorkspaceNext]_vars

\* one use of SWITCH_OP or one call of an unimplemented kernel
SpecDispatch == DispatchInit /\ [][DispatchNext]_vars

\* the compare kernels on features that hold the identity of the reduction
ExtremeInit == SpMMInit({"max", "min"}, {"transposed"}, {"extreme_u", "extreme_e"})
SpecExtreme == ExtremeInit /\ [][CmpNext]_vars

\* one launch of SDDMMCsrKernel or SDDMMCooKernel, its threads interleaved
SpecGrid == GridInit /\ [][GridNext]_vars

====
